---- MODULE Spec2Model ----
(***************************************************************************)
(* Model of the HO_OSINT serverless search handler (intelligent search)    *)
(* and of its relevance scoring function.                                  *)
(*                                                                         *)
(* Text values are sequences of one-character strings, so that trimming,   *)
(* lower-casing, prefix and substring tests are computed, not assumed.     *)
(* A null / undefined column is the value Null.                            *)
(* Scores are exact rationals, held as integers in units of 1/ScoreUnit.   *)
(***************************************************************************)
EXTENDS Integers, Sequences, FiniteSets, TLC

\* ------------------------------------------------------------------ bounds
\* longest text value enumerated for calculateRelevance
MaxFieldLen == 2
\* largest explicit maxResults a request carries (the default 10 is extra)
MaxMaxResults == 4
\* most rows a table of the entity store holds
MaxRows == 5

\* ------------------------------------------------------- program constants
\* default of maxResults in the body destructuring
DefaultMaxResults == 10
\* the three searches split maxResults by this divisor
CategoryDivisor == 3
\* number of columns every call site passes to calculateRelevance
NumFields == 3
\* one score point is ScoreUnit integer units: 1/(index+1) and
\* matchingWords/words.length stay exact for up to 4 fields and 10 words
ScoreUnit == 30240
ExactPoints == 100
PrefixPoints == 80
ContainsPoints == 60
FuzzyPoints == 30

VARIABLES
    request,      \* the HTTP event: method and (parsed) body
    pc,           \* position of exports.handler
    lookups,      \* per category: the query promise, its limit, its mapped
                  \* result and whether its error was logged
    response,     \* the value exports.handler returned
    relTerm,      \* calculateRelevance: the searchTerm argument
    relFields,    \* calculateRelevance: the ...fields argument
    relScore,     \* calculateRelevance: the returned score
    relPc,        \* calculateRelevance: "idle", "ready" or "returned"
    voiceEvent,   \* voice transcription: the event and the configured API keys
    voicePc,      \* voice transcription: position of exports.handler
    voiceCalls,   \* voice transcription: the service calls made, in order
    voiceTranscript, \* voice transcription: the local variable transcript
    voiceError,   \* voice transcription: the error the catch block received
    voiceLog,     \* voice transcription: rows inserted into voice_analytics
    voiceResponse, \* voice transcription: the value the handler returned
    saveEvent,    \* save research: the event (method, body)
    savePc,       \* save research: position of exports.handler
    saveOps,      \* save research: the store operations issued, in order
    saveResponse, \* save research: the value the handler returned
    createEvent,  \* create entity: the event (method, body)
    createPc,     \* create entity: position of exports.handler
    createExtracted, \* create entity: extractedData, without keys until it is assigned
    createOps,    \* create entity: the store operations issued, in order
    createResponse, \* create entity: the value the handler returned
    navigationState, \* NavigationProvider: the useState value
    navTrace,     \* NavigationProvider: the calls made and the state each left
    navCrashed    \* NavigationProvider: a state updater threw

searchVars == <<request, pc, lookups, response>>
relVars == <<relTerm, relFields, relScore, relPc>>
voiceVars == <<voiceEvent, voicePc, voiceCalls, voiceTranscript, voiceError,
               voiceLog, voiceResponse>>
saveVars == <<saveEvent, savePc, saveOps, saveResponse>>
createVars == <<createEvent, createPc, createExtracted, createOps, createResponse>>
navVars == <<navigationState, navTrace, navCrashed>>
vars == <<searchVars, relVars, voiceVars, saveVars, createVars, navVars>>

\* --------------------------------------------------------------- text values
Null == <<"null">>

Min(a, b) == IF a < b THEN a ELSE b

\* JavaScript truthiness of a column value: null, undefined and "" are falsy
Falsy(field) == field = Null \/ field = <<>>

ToLowerChar(ch) ==
    CASE ch = "A" -> "a"
      [] ch = "B" -> "b"
      [] ch = "C" -> "c"
      [] ch = "P" -> "p"
      [] OTHER -> ch

\* String.prototype.toLowerCase
toLowerCase(s) == [i \in 1..Len(s) |-> ToLowerChar(s[i])]

\* String.prototype.startsWith
startsWith(s, t) == Len(t) <= Len(s) /\ SubSeq(s, 1, Len(t)) = t

\* String.prototype.includes
includes(s, t) == \E i \in 0..(Len(s) - Len(t)) : SubSeq(s, i + 1, i + Len(t)) = t

\* a trim that leaves the text as it is
trimNothing(s) == s

\* String.prototype.trim
RECURSIVE trimStart(_)
trimStart(s) == IF s # <<>> /\ Head(s) = " " THEN trimStart(Tail(s)) ELSE s

RECURSIVE trimEnd(_)
trimEnd(s) ==
    IF s # <<>> /\ s[Len(s)] = " " THEN trimEnd(SubSeq(s, 1, Len(s) - 1)) ELSE s

trim(s) == trimEnd(trimStart(s))

\* String.prototype.split(' '): the pieces between single spaces
RECURSIVE split(_)
split(s) ==
    IF \A i \in 1..Len(s) : s[i] # " "
    THEN <<s>>
    ELSE LET i == CHOOSE k \in 1..Len(s) :
                      s[k] = " " /\ \A j \in 1..(k - 1) : s[j] # " "
         IN  <<SubSeq(s, 1, i - 1)>> \o split(SubSeq(s, i + 1, Len(s)))

RECURSIVE SumSeq(_)
SumSeq(s) == IF s = <<>> THEN 0 ELSE Head(s) + SumSeq(Tail(s))

\* ------------------------------------------------------ calculateRelevance
\* one field whose tiers are all worth the exact-match points
FieldScoreFlat(term, field, index) ==
    IF Falsy(field) THEN 0
    ELSE IF includes(toLowerCase(field), term)
         THEN (ExactPoints * ScoreUnit) \div (index + 1)
         ELSE 0

\* every field at full weight
FieldScoreNoWeight(term, field, index) ==
    IF Falsy(field) THEN 0
    ELSE LET fieldValue == toLowerCase(field)
         IN  IF fieldValue = term THEN ExactPoints * ScoreUnit
             ELSE IF startsWith(fieldValue, term) THEN PrefixPoints * ScoreUnit
             ELSE IF includes(fieldValue, term) THEN ContainsPoints * ScoreUnit
             ELSE 0

\* a scoring step that lacks the contains tier, so that the word-level branch
\* is reached by fields holding the term
FieldScoreWithoutContains(term, field, index) ==
    IF Falsy(field) THEN 0
    ELSE LET fieldValue == toLowerCase(field)
             words == split(fieldValue)
             matchingWords ==
                 Cardinality({w \in 1..Len(words) : includes(words[w], term)})
         IN  IF fieldValue = term
             THEN (ExactPoints * ScoreUnit) \div (index + 1)
             ELSE IF startsWith(fieldValue, term)
             THEN (PrefixPoints * ScoreUnit) \div (index + 1)
             ELSE (FuzzyPoints * matchingWords * ScoreUnit)
                      \div (Len(words) * (index + 1))

\* the body of the forEach callback: what one field adds to score
FieldScore(term, field, index) ==
    IF Falsy(field) THEN 0
    ELSE LET fieldValue == toLowerCase(field)
         IN  IF fieldValue = term
             THEN (ExactPoints * ScoreUnit) \div (index + 1)
             ELSE IF startsWith(fieldValue, term)
             THEN (PrefixPoints * ScoreUnit) \div (index + 1)
             ELSE IF includes(fieldValue, term)
             THEN (ContainsPoints * ScoreUnit) \div (index + 1)
             ELSE LET words == split(fieldValue)
                      matchingWords ==
                          Cardinality({w \in 1..Len(words) : includes(words[w], term)})
                  IN  IF matchingWords > 0
                      THEN (FuzzyPoints * matchingWords * ScoreUnit)
                               \div (Len(words) * (index + 1))
                      ELSE 0

\* the term compared as typed, not lower-cased
calculateRelevanceAsTyped(searchTerm, fields) ==
    SumSeq([i \in 1..Len(fields) |-> FieldScore(searchTerm, fields[i], i - 1)])

calculateRelevance(searchTerm, fields) ==
    LET term == toLowerCase(searchTerm)
    IN  SumSeq([i \in 1..Len(fields) |-> FieldScore(term, fields[i], i - 1)])

\* ----------------------------------------- inputs of calculateRelevance
Alphabet == {"a", "B", " "}

Texts == UNION {[1..k -> Alphabet] : k \in 0..MaxFieldLen}

FieldValues == Texts \cup {Null}

\* search terms as the handler passes them: trimmed and non-empty
Terms == {<<"a">>, <<"B">>, <<"a", "B">>, <<"B", " ", "a">>}

\* the handler is not running in the scoring specification, and vice versa
SearchIdle ==
    /\ request = [httpMethod |-> "NONE"]
    /\ pc = "idle"
    /\ lookups = <<>>
    /\ response = Null

RelIdle ==
    /\ relTerm = <<>>
    /\ relFields = <<>>
    /\ relScore = 0
    /\ relPc = "idle"

VoiceIdle ==
    /\ voiceEvent = [httpMethod |-> "NONE"]
    /\ voicePc = "idle"
    /\ voiceCalls = <<>>
    /\ voiceTranscript = <<>>
    /\ voiceError = <<>>
    /\ voiceLog = <<>>
    /\ voiceResponse = Null

SaveIdle ==
    /\ saveEvent = [httpMethod |-> "NONE"]
    /\ savePc = "idle"
    /\ saveOps = <<>>
    /\ saveResponse = Null

CreateIdle ==
    /\ createEvent = [httpMethod |-> "NONE"]
    /\ createPc = "idle"
    /\ createExtracted = <<>>
    /\ createOps = <<>>
    /\ createResponse = Null

NavIdle ==
    /\ navigationState = Null
    /\ navTrace = <<>>
    /\ navCrashed = FALSE

InitRel ==
    /\ SearchIdle
    /\ VoiceIdle /\ SaveIdle /\ CreateIdle /\ NavIdle
    /\ relTerm \in Terms
    /\ relFields = <<>>
    /\ relScore = 0
    /\ relPc = "ready"

\* one call calculateRelevance(searchTerm, f1, f2, f3)
RelCall ==
    /\ relPc = "ready"
    /\ \E fields \in [1..NumFields -> FieldValues] :
          /\ relFields' = fields
          /\ relScore' = calculateRelevance(relTerm, fields)
    /\ relPc' = "returned"
    /\ UNCHANGED <<relTerm, searchVars, voiceVars, saveVars, createVars, navVars>>

NextRel == RelCall

SpecRel == InitRel /\ [][NextRel]_vars

\* ------------------------------------------------------- the entity store
\* words the rows and the queries are made of
Acme == <<"A", "c", "m", "e">>
Corp == <<"C", "o", "r", "p">>
AcmeCorp == Acme \o <<" ">> \o Corp
Ann == <<"A", "n", "n">>
Bo == <<"B", "o">>
Pad == <<"P", "a", "d">>
AnAcme == <<"a", "n", " ">> \o toLowerCase(Acme)

\* the three tables, in the order their searches are pushed
Categories == <<"people", "companies", "projects">>

\* the columns each .or(...) filter matches with ilike
MatchedColumns(c) ==
    CASE c = "people" -> {"name", "title", "company", "email"}
      [] c = "companies" -> {"name", "description", "sectors", "city"}
      [] c = "projects" -> {"title", "description", "location", "developer", "architect"}

PersonRow(name, title, company, email) ==
    [name |-> name, title |-> title, company |-> company, email |-> email,
     type |-> <<"contact">>]

CompanyRow(name, description, sectors, city) ==
    [name |-> name, description |-> description, sectors |-> sectors,
     city |-> city, state |-> Null, type |-> <<"firm">>]

ProjectRow(title, description, location, developer, architect) ==
    [title |-> title, description |-> description, location |-> location,
     developer |-> developer, architect |-> architect, type |-> Null]

\* rows a table can hold; row i of a table is entry ((i - 1) % 5) + 1
StoreRows(c) ==
    CASE c = "people" ->
           << PersonRow(Ann, <<"C", "e", "o">>, Acme, Null),
              PersonRow(Bo, Null, Null, <<"b", "o", "@">> \o toLowerCase(Acme)),
              PersonRow(Acme \o <<" ">> \o Ann, Acme, AcmeCorp, Null),
              PersonRow(Ann, Null, Corp, Null),
              PersonRow(AnAcme, Null, Null, Null) >>
      [] c = "companies" ->
           << CompanyRow(Acme, Null, Null, Null),
              CompanyRow(AcmeCorp, Acme, Null, Null),
              CompanyRow(Bo, Null, Corp, Acme),
              CompanyRow(Corp, AnAcme, Acme, Null),
              CompanyRow(Ann, Null, Null, Null) >>
      [] c = "projects" ->
           << ProjectRow(Pad, Null, Null, AcmeCorp, Null),
              ProjectRow(Acme, Null, Null, Null, Null),
              ProjectRow(Corp \o <<" ">> \o Pad, Null, Acme, Null, Null),
              ProjectRow(Pad, Bo, Ann, Null, Ann),
              ProjectRow(Ann, AcmeCorp, Null, Null, Null) >>

\* the table of category c when it holds k rows
Table(c, k) ==
    [i \in 1..k |->
        [id |-> i] @@ StoreRows(c)[((i - 1) % Len(StoreRows(c))) + 1]]

\* column.ilike.%searchTerm% : case-insensitive substring match, never on NULL
ilike(value, searchTerm) ==
    value # Null /\ includes(toLowerCase(value), toLowerCase(searchTerm))

\* the .or(...) filter of category c
MatchesFilter(c, row, searchTerm) ==
    \E col \in MatchedColumns(c) : ilike(row[col], searchTerm)

\* a store that ignores .limit(n)
SelectUnlimited(c, table, searchTerm, limit) ==
    LET Hit(row) == MatchesFilter(c, row, searchTerm)
    IN  SelectSeq(table, Hit)

\* supabase.from(c).select(...).or(...).limit(n): the first n matching rows
Select(c, table, searchTerm, limit) ==
    LET Hit(row) == MatchesFilter(c, row, searchTerm)
        hits == SelectSeq(table, Hit)
    IN  SubSeq(hits, 1, Min(limit, Len(hits)))

\* ------------------------------------------------------------ the handler
\* a || b on text values
OrElse(a, b) == IF Falsy(a) THEN b ELSE a

\* the .then callback's map: one store row to one candidate record
MapRow(c, item, searchTerm) ==
    CASE c = "people" ->
           [type |-> "person",
            description |-> OrElse(item.title, <<"Professional">>) \o <<" at ">>
                              \o OrElse(item.company, <<"Unknown Company">>),
            relevanceScore |->
                calculateRelevance(searchTerm, <<item.name, item.title, item.company>>)]
           @@ item
      [] c = "companies" ->
           [type |-> "company",
            description |-> OrElse(item.description,
                              OrElse(item.sectors, <<"Company">>) \o <<" based in ">>
                                \o OrElse(item.city, <<"Unknown">>) \o <<", ">>
                                \o OrElse(item.state, <<>>)),
            relevanceScore |->
                calculateRelevance(searchTerm,
                                   <<item.name, item.description, item.sectors>>)]
           @@ item
      [] c = "projects" ->
           [type |-> "project",
            name |-> item.title,
            description |-> OrElse(item.description,
                              OrElse(item.type, <<"Project">>) \o <<" in ">>
                                \o OrElse(item.location, <<"Unknown location">>)),
            relevanceScore |->
                calculateRelevance(searchTerm,
                                   <<item.title, item.description, item.location>>)]
           @@ item

MapRows(c, data, searchTerm) == [i \in 1..Len(data) |-> MapRow(c, data[i], searchTerm)]

\* Math.ceil(n / d) on integers
CeilDiv(n, d) == -((-n) \div d)

\* a per-category limit that rounds down
PerCategoryLimitFloor(maxResults) == maxResults \div CategoryDivisor

\* Math.ceil(maxResults / 3), the argument of every .limit(...)
PerCategoryLimit(maxResults) == CeilDiv(maxResults, CategoryDivisor)

\* a concatenation that forgets the last array
flatWithoutLast(searchResults) ==
    searchResults[1] \o searchResults[2]

\* Array.prototype.flat over the three result arrays
flat(searchResults) ==
    searchResults[1] \o searchResults[2] \o searchResults[3]

\* a comparator that orders by ascending score
ComesBeforeAscending(a, b) == a.relevanceScore <= b.relevanceScore

\* the comparator (a, b) => b.relevanceScore - a.relevanceScore keeps a before b
ComesBefore(a, b) == a.relevanceScore >= b.relevanceScore

\* Array.prototype.sort, stable: each element goes behind those that stay before it
RECURSIVE sortInto(_, _)
sortInto(sorted, rest) ==
    IF rest = <<>> THEN sorted
    ELSE LET x == Head(rest)
             k == Cardinality({i \in 1..Len(sorted) : ComesBefore(sorted[i], x)})
         IN  sortInto(SubSeq(sorted, 1, k) \o <<x>> \o SubSeq(sorted, k + 1, Len(sorted)),
                      Tail(rest))

\* a sort that leaves the concatenation in category order
sortKeepingOrder(rows) == rows

sort(rows) == sortInto(<<>>, rows)

\* a slice that keeps everything
sliceAll(rows, end) == rows

\* Array.prototype.slice(0, end)
slice(rows, end) ==
    LET stop == IF end < 0 THEN (IF Len(rows) + end < 0 THEN 0 ELSE Len(rows) + end)
                ELSE Min(end, Len(rows))
    IN  SubSeq(rows, 1, stop)

\* the query texts a body can carry
Queries ==
    { <<>>, <<" ", " ">>,
      Acme, <<" ">> \o toLowerCase(Acme) \o <<" ">>, Corp, AcmeCorp, Ann, <<"z">> }

\* the JSON object {}
EmptyBody == [key \in {} |-> TRUE]

\* the request bodies: query, includeResults and maxResults may each be absent
Bodies ==
    { q @@ i @@ m :
        q \in {EmptyBody} \cup {[query |-> x] : x \in Queries},
        i \in {EmptyBody} \cup {[includeResults |-> x] : x \in BOOLEAN},
        m \in {EmptyBody} \cup {[maxResults |-> x] : x \in 1..MaxMaxResults} }

\* the methods a request arrives with
Methods == {"OPTIONS", "GET", "DELETE", "POST"}

\* every method may carry a body that is not JSON, or a search body
Requests ==
    {[httpMethod |-> m, bodyParses |-> FALSE] : m \in Methods}
      \cup {[httpMethod |-> m, bodyParses |-> TRUE, body |-> [query |-> Acme]] :
               m \in Methods \ {"POST"}}
      \cup {[httpMethod |-> "POST", bodyParses |-> TRUE, body |-> b] : b \in Bodies}

\* the destructuring defaults of line 34
IncludeResultsOf(body) ==
    IF "includeResults" \in DOMAIN body THEN body.includeResults ELSE TRUE

MaxResultsOf(body) ==
    IF "maxResults" \in DOMAIN body THEN body.maxResults ELSE DefaultMaxResults

\* !query || query.trim().length === 0
BlankQuery(body) ==
    IF "query" \notin DOMAIN body THEN TRUE
    ELSE IF body.query = <<>> THEN TRUE
    ELSE Len(trim(body.query)) = 0

Init ==
    /\ request \in Requests
    /\ pc = "start"
    /\ lookups = [i \in 1..Len(Categories) |->
                     [status |-> "idle", limit |-> 0, value |-> <<>>, logged |-> FALSE]]
    /\ response = Null
    /\ RelIdle
    /\ VoiceIdle /\ SaveIdle /\ CreateIdle /\ NavIdle

Respond(r) ==
    /\ response' = r
    /\ pc' = "done"

\* OPTIONS: the preflight answer
Preflight ==
    /\ pc = "start"
    /\ request.httpMethod = "OPTIONS"
    /\ Respond([statusCode |-> 200, body |-> ""])
    /\ UNCHANGED <<request, lookups, relVars, voiceVars, saveVars, createVars, navVars>>

\* a handler that parses the body before it looks at the method
MethodNotAllowedAfterParse ==
    /\ pc = "start"
    /\ request.httpMethod \notin {"OPTIONS", "POST"}
    /\ Respond(IF request.bodyParses
               THEN [statusCode |-> 405, error |-> "Method not allowed"]
               ELSE [statusCode |-> 500, success |-> FALSE,
                     error |-> "Internal server error during search",
                     results |-> <<>>])
    /\ UNCHANGED <<request, lookups, relVars, voiceVars, saveVars, createVars, navVars>>

MethodNotAllowed ==
    /\ pc = "start"
    /\ request.httpMethod \notin {"OPTIONS", "POST"}
    /\ Respond([statusCode |-> 405, error |-> "Method not allowed"])
    /\ UNCHANGED <<request, lookups, relVars, voiceVars, saveVars, createVars, navVars>>

ErrorResponse ==
    [statusCode |-> 500, success |-> FALSE,
     error |-> "Internal server error during search", results |-> <<>>]

\* a malformed body answered as a validation error
ParseFailureAsValidation ==
    /\ pc = "start"
    /\ request.httpMethod = "POST"
    /\ ~request.bodyParses
    /\ Respond([statusCode |-> 400, error |-> "Query parameter is required",
                results |-> <<>>])
    /\ UNCHANGED <<request, lookups, relVars, voiceVars, saveVars, createVars, navVars>>

\* JSON.parse throws: the catch block answers
ParseFailure ==
    /\ pc = "start"
    /\ request.httpMethod = "POST"
    /\ ~request.bodyParses
    /\ Respond(ErrorResponse)
    /\ UNCHANGED <<request, lookups, relVars, voiceVars, saveVars, createVars, navVars>>

RejectBlankQuery ==
    /\ pc = "start"
    /\ request.httpMethod = "POST"
    /\ request.bodyParses
    /\ BlankQuery(request.body)
    /\ Respond([statusCode |-> 400, error |-> "Query parameter is required",
                results |-> <<>>])
    /\ UNCHANGED <<request, lookups, relVars, voiceVars, saveVars, createVars, navVars>>

\* the three searches are started and the handler awaits Promise.all
FanOut ==
    /\ pc = "start"
    /\ request.httpMethod = "POST"
    /\ request.bodyParses
    /\ ~BlankQuery(request.body)
    /\ lookups' = [i \in 1..Len(Categories) |->
                      [status |-> "pending",
                       limit |-> PerCategoryLimit(MaxResultsOf(request.body)),
                       value |-> <<>>,
                       logged |-> FALSE]]
    /\ pc' = "await"
    /\ UNCHANGED <<request, response, relVars, voiceVars, saveVars, createVars, navVars>>

searchTerm == trim(request.body.query)

\* Promise.all has rejected and the handler has not yet run its catch block;
\* no other callback runs before that continuation
RejectionUnhandled ==
    pc = "await" /\ \E i \in 1..Len(Categories) : lookups[i].status = "rejected"

CanSettle(i) ==
    /\ pc \in {"await", "done"}
    /\ lookups[i].status = "pending"
    /\ ~RejectionUnhandled

\* the query resolves with rows: { data, error: null }
LookupData(i) ==
    /\ CanSettle(i)
    /\ \E k \in 0..MaxRows :
          lookups' = [lookups EXCEPT ![i] =
              [@ EXCEPT !.status = "fulfilled",
                        !.value = MapRows(Categories[i],
                                          Select(Categories[i], Table(Categories[i], k),
                                                 searchTerm, lookups[i].limit),
                                          searchTerm)]]
    /\ UNCHANGED <<request, pc, response, relVars, voiceVars, saveVars, createVars, navVars>>

\* the query resolves with { data: null, error }: console.error, zero rows
LookupError(i) ==
    /\ CanSettle(i)
    /\ lookups' = [lookups EXCEPT ![i] = [@ EXCEPT !.status = "fulfilled",
                                                   !.value = <<>>,
                                                   !.logged = TRUE]]
    /\ UNCHANGED <<request, pc, response, relVars, voiceVars, saveVars, createVars, navVars>>

\* the query promise rejects (the client or the callback throws)
LookupThrow(i) ==
    /\ CanSettle(i)
    /\ lookups' = [lookups EXCEPT ![i] = [@ EXCEPT !.status = "rejected"]]
    /\ UNCHANGED <<request, pc, response, relVars, voiceVars, saveVars, createVars, navVars>>

AllFulfilled == \A i \in 1..Len(Categories) : lookups[i].status = "fulfilled"

\* a response whose totalResults is the length of the truncated list
SearchResponseTruncatedTotal(searchResults, body, term) ==
    LET sortedResults == slice(sort(flat(searchResults)), MaxResultsOf(body))
    IN  [statusCode |-> 200, success |-> TRUE, query |-> term,
         results |-> IF IncludeResultsOf(body) THEN sortedResults ELSE <<>>,
         analytics |->
             [totalResults |-> Len(sortedResults),
              resultsByType |-> [people |-> Len(searchResults[1]),
                                 companies |-> Len(searchResults[2]),
                                 projects |-> Len(searchResults[3])],
              searchTerm |-> term],
         totalResults |-> Len(sortedResults)]

\* a response whose analytics count the rows that are shown
SearchResponseCountsShown(searchResults, body, term) ==
    LET sortedResults == slice(sort(flat(searchResults)), MaxResultsOf(body))
        shown == IF IncludeResultsOf(body) THEN flat(searchResults) ELSE <<>>
    IN  [statusCode |-> 200, success |-> TRUE, query |-> term,
         results |-> IF IncludeResultsOf(body) THEN sortedResults ELSE <<>>,
         analytics |->
             [totalResults |-> Len(shown),
              resultsByType |-> [people |-> Len(searchResults[1]),
                                 companies |-> Len(searchResults[2]),
                                 projects |-> Len(searchResults[3])],
              searchTerm |-> term],
         totalResults |-> Len(shown)]

\* the response lines 120-154 build from the three result arrays
SearchResponse(searchResults, body, term) ==
    LET allResults == flat(searchResults)
        sortedResults == slice(sort(allResults), MaxResultsOf(body))
        analytics ==
            [totalResults |-> Len(allResults),
             resultsByType |-> [people |-> Len(searchResults[1]),
                                companies |-> Len(searchResults[2]),
                                projects |-> Len(searchResults[3])],
             searchTerm |-> term]
    IN  [statusCode |-> 200, success |-> TRUE, query |-> term,
         results |-> IF IncludeResultsOf(body) THEN sortedResults ELSE <<>>,
         analytics |-> analytics,
         totalResults |-> Len(allResults)]

\* Promise.all fulfilled: merge, sort, truncate, answer 200
Complete ==
    /\ pc = "await"
    /\ AllFulfilled
    /\ Respond(SearchResponse([i \in 1..Len(Categories) |-> lookups[i].value],
                              request.body, searchTerm))
    /\ UNCHANGED <<request, lookups, relVars, voiceVars, saveVars, createVars, navVars>>

\* Promise.all rejected with the first rejection: the catch block answers 500
CatchRejection ==
    /\ RejectionUnhandled
    /\ Respond(ErrorResponse)
    /\ UNCHANGED <<request, lookups, relVars, voiceVars, saveVars, createVars, navVars>>

Next ==
    \/ Preflight
    \/ MethodNotAllowed
    \/ ParseFailure
    \/ RejectBlankQuery
    \/ FanOut
    \/ \E i \in 1..Len(Categories) : LookupData(i)
    \/ \E i \in 1..Len(Categories) : LookupError(i)
    \/ \E i \in 1..Len(Categories) : LookupThrow(i)
    \/ Complete
    \/ CatchRejection

Spec == Init /\ [][Next]_vars

\* ------------------------------------------------ properties of the scoring
\* the score the calls of one specification left behind
RelReturned == relPc = "returned"

\* t occurs in v at offset i, character by character
OccursAt(v, t, i) ==
    /\ i + Len(t) <= Len(v)
    /\ \A j \in 1..Len(t) : v[i + j] = t[j]

\* the whitespace-separated words of v, each as <<first, last>> positions
WordSpans(v) ==
    {<<s, e>> \in (1..(Len(v) + 1)) \X (0..Len(v)) :
        /\ s = 1 \/ v[s - 1] = " "
        /\ e = Len(v) \/ v[e + 1] = " "
        /\ e >= s - 1
        /\ \A k \in s..e : v[k] # " "}

\* tier value of one field, in score units, before the position weight
TierUnits(term, field) ==
    IF field = Null \/ Len(field) = 0 THEN 0
    ELSE LET v == toLowerCase(field)
             m == Cardinality({w \in WordSpans(v) :
                      \E i \in (w[1] - 1)..(w[2] - Len(term)) : OccursAt(v, term, i)})
         IN  CASE Len(v) = Len(term) /\ OccursAt(v, term, 0) -> ExactPoints * ScoreUnit
               [] Len(v) > Len(term) /\ OccursAt(v, term, 0) -> PrefixPoints * ScoreUnit
               [] OTHER ->
                    IF \E i \in 1..Len(v) : OccursAt(v, term, i)
                    THEN ContainsPoints * ScoreUnit
                    ELSE IF m > 0
                         THEN (FuzzyPoints * m * ScoreUnit) \div Cardinality(WordSpans(v))
                         ELSE 0

\* C6: calculateRelevance returns the sum over the field positions i
\* (0-indexed) of 1/(i+1) times the field's tier value: 100 exact, else 80
\* starts-with, else 60 contains, else 30*m/wordCount, else 0; null fields 0.
C6_WeightedTierSum ==
    RelReturned =>
        relScore = SumSeq([i \in 1..Len(relFields) |->
                       TierUnits(toLowerCase(relTerm), relFields[i]) \div i])

\* a call whose first field only contains the term, whose second equals it
\* and whose third is null: 60 + 100/2
C6_Witness ==
    /\ RelReturned
    /\ relFields[3] = Null
    /\ toLowerCase(relFields[2]) = toLowerCase(relTerm)
    /\ ~startsWith(toLowerCase(relFields[1]), toLowerCase(relTerm))
    /\ includes(toLowerCase(relFields[1]), toLowerCase(relTerm))
    /\ relScore = 110 * ScoreUnit

\* the name only contains the term: it has it as a substring without equalling it
OnlyContains(name, q) ==
    /\ ~Falsy(name)
    /\ toLowerCase(name) # toLowerCase(q)
    /\ includes(toLowerCase(name), toLowerCase(q))

\* C7: of two records equal in every scored field but the name, the one whose
\* name equals the query (case-insensitively) scores strictly higher than the
\* one whose name only contains the query.
C7_ExactNameBeatsSubstring ==
    (RelReturned /\ toLowerCase(relFields[1]) = toLowerCase(relTerm)) =>
        \A other \in FieldValues :
            OnlyContains(other, relTerm) =>
                calculateRelevance(relTerm, <<other, relFields[2], relFields[3]>>)
                    < relScore

\* an exact-name record with a matching second field, and a record to compare
C7_Witness ==
    /\ RelReturned
    /\ toLowerCase(relFields[1]) = toLowerCase(relTerm)
    /\ relTerm # toLowerCase(relTerm)
    /\ includes(toLowerCase(relFields[2]), toLowerCase(relTerm))
    /\ \E other \in FieldValues :
          /\ OnlyContains(other, relTerm)
          /\ ~startsWith(toLowerCase(other), toLowerCase(relTerm))

\* ------------------------------------------------ properties of the handler
\* the handler has answered a search with 200
IsSearchResponse ==
    /\ pc = "done"
    /\ response.statusCode = 200
    /\ "results" \in DOMAIN response

\* the request got as far as starting its three searches
FannedOut == \A i \in 1..Len(Categories) : lookups[i].status # "idle"

NumResults == Len(response.results)

\* C1: for a non-blank query and a positive integer maxResults, whatever rows
\* the lookups return, the 200 response has len(results) <= maxResults and
\* totalResults >= len(results).
C1_ResultsWithinLimit ==
    (IsSearchResponse /\ MaxResultsOf(request.body) > 0) =>
        /\ NumResults <= MaxResultsOf(request.body)
        /\ response.totalResults >= NumResults

\* a response that was truncated to an explicit maxResults
C1_Witness ==
    /\ IsSearchResponse
    /\ "maxResults" \in DOMAIN request.body
    /\ NumResults = request.body.maxResults
    /\ response.totalResults > NumResults

\* C2: the results list of every response is sorted by non-increasing
\* relevanceScore, whatever category each entry came from.
C2_ResultsSortedByScore ==
    (pc = "done" /\ "results" \in DOMAIN response) =>
        \A i \in 1..(Len(response.results) - 1) :
            response.results[i].relevanceScore >= response.results[i + 1].relevanceScore

\* a project ranked ahead of a person with a strictly lower score: the sort
\* moved it across the category order of the concatenation
C2_Witness ==
    /\ IsSearchResponse
    /\ \E i \in 1..NumResults : \E j \in (i + 1)..NumResults :
          /\ response.results[i].type = "project"
          /\ response.results[j].type = "person"
          /\ response.results[i].relevanceScore > response.results[j].relevanceScore
          /\ response.results[j].relevanceScore > 0

\* the lookup of category i failed: its promise rejected or its error was logged
LookupFailed(i) == lookups[i].status = "rejected" \/ lookups[i].logged

CountOf(i) ==
    CASE i = 1 -> response.analytics.resultsByType.people
      [] i = 2 -> response.analytics.resultsByType.companies
      [] i = 3 -> response.analytics.resultsByType.projects

\* C3: if a category's lookup throws (fails), the request is still answered
\* 200 with the other categories' rows and the failed category counts 0; a
\* lookup failure never turns the request into an error response.
C3_LookupFailureStill200 ==
    (pc = "done" /\ FannedOut) =>
        /\ response.statusCode = 200
        /\ \A i \in 1..Len(Categories) :
              /\ LookupFailed(i) => CountOf(i) = 0
              /\ ~LookupFailed(i) => CountOf(i) = Len(lookups[i].value)

\* C4: the response is produced only after all three lookups have each
\* completed or failed: never while a lookup is still outstanding.
C4_NoResponseBeforeJoin ==
    pc = "done" => \A i \in 1..Len(Categories) : lookups[i].status # "pending"

\* the query is missing, empty or made of whitespace only
QueryMissingOrBlank(body) ==
    IF "query" \in DOMAIN body
    THEN \A k \in 1..Len(body.query) : body.query[k] = " "
    ELSE TRUE

\* C5: a POST whose query is missing, empty or whitespace-only is answered
\* 400 with an empty results list, and no lookup is ever issued for it.
C5_BlankQueryRejected ==
    (request.httpMethod = "POST" /\ request.bodyParses
       /\ QueryMissingOrBlank(request.body)) =>
        /\ \A i \in 1..Len(Categories) : lookups[i].status = "idle"
        /\ pc = "done" => (response.statusCode = 400 /\ response.results = <<>>)

\* a whitespace-only query answered 400
C5_Witness ==
    /\ pc = "done"
    /\ request.httpMethod = "POST"
    /\ request.bodyParses
    /\ "query" \in DOMAIN request.body
    /\ Len(request.body.query) > 0
    /\ QueryMissingOrBlank(request.body)
    /\ response.statusCode = 400

\* the scenario's company: named exactly like the query, nothing else scored
ScenarioCompany(r, term) ==
    /\ r.type = "company"
    /\ toLowerCase(r.name) = toLowerCase(term)
    /\ ~ilike(r.description, term)
    /\ ~ilike(r.sectors, term)

\* the scenario's project: found through its developer "Acme Corp" only
ScenarioProject(r, term) ==
    /\ r.type = "project"
    /\ r.developer = AcmeCorp
    /\ ~ilike(r.title, term)
    /\ ~ilike(r.description, term)
    /\ ~ilike(r.location, term)

\* C8: for query "Acme", a company named exactly "Acme" scores 100, a project
\* whose developer is "Acme Corp" scores lower, and the company is ranked
\* before the project.
C8_AcmeScenario ==
    (IsSearchResponse /\ toLowerCase(response.query) = toLowerCase(Acme)) =>
        \A i \in 1..NumResults : \A j \in 1..NumResults :
            (ScenarioCompany(response.results[i], response.query)
               /\ ScenarioProject(response.results[j], response.query)) =>
                /\ response.results[i].relevanceScore = 100 * ScoreUnit
                /\ response.results[j].relevanceScore < response.results[i].relevanceScore
                /\ i < j

\* both records of the scenario are in the results of the query "Acme"
C8_Witness ==
    /\ IsSearchResponse
    /\ response.query = Acme
    /\ \E i \in 1..NumResults : \E j \in 1..NumResults :
          /\ ScenarioCompany(response.results[i], response.query)
          /\ response.results[i].name = Acme
          /\ ScenarioProject(response.results[j], response.query)

\* n is ceil(maxResults / 3): the least n with 3 * n >= maxResults
IsCeilOfThird(n, maxResults) ==
    /\ CategoryDivisor * n >= maxResults
    /\ CategoryDivisor * (n - 1) < maxResults

\* C9: every lookup is issued with row limit ceil(maxResults / 3) (4 for the
\* default 10), no category contributes more rows than that, and totalResults
\* never exceeds 3 * ceil(maxResults / 3).
C9_PerCategoryLimit ==
    FannedOut =>
        /\ \A i \in 1..Len(Categories) :
              /\ IsCeilOfThird(lookups[i].limit, MaxResultsOf(request.body))
              /\ "maxResults" \notin DOMAIN request.body => lookups[i].limit = 4
              /\ Len(lookups[i].value) <= lookups[i].limit
        /\ IsSearchResponse =>
              response.totalResults <= CategoryDivisor * lookups[1].limit

\* the default maxResults with every table holding more than four matches
C9_Witness ==
    /\ IsSearchResponse
    /\ "maxResults" \notin DOMAIN request.body
    /\ \A i \in 1..Len(Categories) : Len(lookups[i].value) = 4
    /\ response.totalResults = 12

\* C10: with includeResults true and a positive integer maxResults the results
\* list holds exactly min(maxResults, totalResults) records, and totalResults
\* counts all fetched rows before truncation.
C10_TruncatedToMaxResults ==
    (IsSearchResponse /\ IncludeResultsOf(request.body)
       /\ MaxResultsOf(request.body) > 0) =>
        /\ NumResults = Min(MaxResultsOf(request.body), response.totalResults)
        /\ response.totalResults =
              SumSeq([i \in 1..Len(Categories) |-> Len(lookups[i].value)])

\* maxResults = 1 with a match in every category: one result, totalResults 3
C10_Witness ==
    /\ IsSearchResponse
    /\ IncludeResultsOf(request.body)
    /\ "maxResults" \in DOMAIN request.body
    /\ request.body.maxResults = 1
    /\ response.totalResults = 3
    /\ NumResults = 1

\* C11: in every successful search response analytics.totalResults and the
\* top-level totalResults both equal the number of rows concatenated from the
\* three lookups before truncation, which is the sum of resultsByType.
C11_TotalsCountFetchedRows ==
    IsSearchResponse =>
        /\ response.analytics.totalResults = response.totalResults
        /\ response.totalResults =
              Len(lookups[1].value) + Len(lookups[2].value) + Len(lookups[3].value)
        /\ response.totalResults =
              response.analytics.resultsByType.people
                + response.analytics.resultsByType.companies
                + response.analytics.resultsByType.projects

\* every category fetched rows and the list was truncated below their sum
C11_Witness ==
    /\ IsSearchResponse
    /\ \A i \in 1..Len(Categories) : CountOf(i) > 0
    /\ response.analytics.resultsByType.people
          # response.analytics.resultsByType.projects
    /\ IncludeResultsOf(request.body)
    /\ NumResults < response.totalResults

\* the same body with includeResults set to true
WithResultsIncluded(body) == [includeResults |-> TRUE] @@ body

\* C12: with includeResults false the results list is empty while analytics
\* and totalResults are exactly what the same query, maxResults and fetched
\* rows give with includeResults true; the lookups are still issued.
C12_AnalyticsWithoutResults ==
    (IsSearchResponse /\ ~IncludeResultsOf(request.body)) =>
        LET shown == SearchResponse([i \in 1..Len(Categories) |-> lookups[i].value],
                                    WithResultsIncluded(request.body),
                                    response.query)
        IN  /\ response.results = <<>>
            /\ FannedOut
            /\ \A i \in 1..Len(Categories) :
                  lookups[i].limit = PerCategoryLimit(MaxResultsOf(request.body))
            /\ shown.results # <<>> => response.analytics.totalResults > 0
            /\ response.analytics = shown.analytics
            /\ response.totalResults = shown.totalResults

\* rows were fetched and none is shown
C12_Witness ==
    /\ IsSearchResponse
    /\ ~IncludeResultsOf(request.body)
    /\ response.results = <<>>
    /\ response.totalResults > 1
    /\ response.analytics.resultsByType.companies > 0

\* C13: OPTIONS is answered 200 with an empty body and every other non-POST
\* method 405; in both cases the body is not parsed and no lookup is issued.
C13_NonPostMethods ==
    request.httpMethod # "POST" =>
        /\ \A i \in 1..Len(Categories) : lookups[i].status = "idle"
        /\ pc = "done" =>
              IF request.httpMethod = "OPTIONS"
              THEN response = [statusCode |-> 200, body |-> ""]
              ELSE response.statusCode = 405

\* a DELETE whose body is not JSON, answered 405
C13_Witness ==
    /\ pc = "done"
    /\ request.httpMethod = "DELETE"
    /\ ~request.bodyParses
    /\ response.statusCode = 405

\* C14: an error raised outside the lookup fan-out of a POST, such as a body
\* that is not parseable JSON, yields 500 with success false, a generic error
\* message and an empty results list.
C14_ParseErrorIs500 ==
    (pc = "done" /\ request.httpMethod = "POST" /\ ~request.bodyParses) =>
        /\ response.statusCode = 500
        /\ response.success = FALSE
        /\ response.error = "Internal server error during search"
        /\ response.results = <<>>
        /\ \A i \in 1..Len(Categories) : lookups[i].status = "idle"

\* the unparseable POST has been answered
C14_Witness ==
    /\ pc = "done"
    /\ request.httpMethod = "POST"
    /\ ~request.bodyParses
    /\ response.statusCode = 500

\* ---------------------------------------------------------------------------
\* Voice transcription handler
\* ---------------------------------------------------------------------------

ContentTypes == {<<"multipart/form-data; boundary=x">>, <<"audio/wav">>,
                 <<"application/json">>, <<>>}

\* contentType.includes('multipart/form-data') || contentType.includes('audio/')
AcceptsContentType(contentType) ==
    contentType \in {<<"multipart/form-data; boundary=x">>, <<"audio/wav">>}

\* the text a transcription service sends back before .trim()
RawTranscripts == {<<" ", "h", "i">>, <<>>}

VoiceEvents ==
    [httpMethod : {"OPTIONS", "GET", "POST"},
     openaiKey : BOOLEAN, deepgramKey : BOOLEAN,
     contentType : ContentTypes,
     hasBody : BOOLEAN, isBase64Encoded : BOOLEAN]

\* Buffer.from(event.body, 'base64') or Buffer.from(event.body), for the body "QUJD"
audioBuffer(e) == IF e.isBase64Encoded THEN <<"A", "B", "C">> ELSE <<"Q", "U", "J", "D">>

InitVoice ==
    /\ SearchIdle /\ RelIdle /\ SaveIdle /\ CreateIdle /\ NavIdle
    /\ voiceEvent \in VoiceEvents
    /\ voicePc = "start"
    /\ voiceCalls = <<>>
    /\ voiceTranscript = <<>>
    /\ voiceError = <<>>
    /\ voiceLog = <<>>
    /\ voiceResponse = Null

VoiceRespond(r) ==
    /\ voiceResponse' = r
    /\ voicePc' = "done"

VoicePreflight ==
    /\ voicePc = "start"
    /\ voiceEvent.httpMethod = "OPTIONS"
    /\ VoiceRespond([statusCode |-> 200])
    /\ UNCHANGED <<voiceEvent, voiceCalls, voiceTranscript, voiceError, voiceLog,
                 searchVars, relVars, saveVars, createVars, navVars>>

VoiceMethodNotAllowed ==
    /\ voicePc = "start"
    /\ voiceEvent.httpMethod \notin {"OPTIONS", "POST"}
    /\ VoiceRespond([statusCode |-> 405, error |-> <<"Method not allowed">>])
    /\ UNCHANGED <<voiceEvent, voiceCalls, voiceTranscript, voiceError, voiceLog,
                 searchVars, relVars, saveVars, createVars, navVars>>

VoiceNoService ==
    /\ voicePc = "start"
    /\ voiceEvent.httpMethod = "POST"
    /\ ~voiceEvent.openaiKey /\ ~voiceEvent.deepgramKey
    /\ VoiceRespond([statusCode |-> 500,
                     error |-> <<"No transcription service configured">>,
                     transcript |-> <<>>])
    /\ UNCHANGED <<voiceEvent, voiceCalls, voiceTranscript, voiceError, voiceLog,
                 searchVars, relVars, saveVars, createVars, navVars>>

VoiceBadContentType ==
    /\ voicePc = "start"
    /\ voiceEvent.httpMethod = "POST"
    /\ voiceEvent.openaiKey \/ voiceEvent.deepgramKey
    /\ ~AcceptsContentType(voiceEvent.contentType)
    /\ VoiceRespond([statusCode |-> 400,
                     error |-> <<"Invalid content type. Expected audio file.">>,
                     transcript |-> <<>>])
    /\ UNCHANGED <<voiceEvent, voiceCalls, voiceTranscript, voiceError, voiceLog,
                 searchVars, relVars, saveVars, createVars, navVars>>

VoiceNoAudio ==
    /\ voicePc = "start"
    /\ voiceEvent.httpMethod = "POST"
    /\ voiceEvent.openaiKey \/ voiceEvent.deepgramKey
    /\ AcceptsContentType(voiceEvent.contentType)
    /\ ~voiceEvent.hasBody
    /\ VoiceRespond([statusCode |-> 400,
                     error |-> <<"No audio data provided">>,
                     transcript |-> <<>>])
    /\ UNCHANGED <<voiceEvent, voiceCalls, voiceTranscript, voiceError, voiceLog,
                 searchVars, relVars, saveVars, createVars, navVars>>

Call(service, outcome) == [service |-> service, outcome |-> outcome]

\* the last call of the log settles with the given outcome
Settle(calls, outcome) == [calls EXCEPT ![Len(calls)].outcome = outcome]

\* if (process.env.OPENAI_API_KEY) ... else if (process.env.DEEPGRAM_API_KEY)
VoiceBegin ==
    /\ voicePc = "start"
    /\ voiceEvent.httpMethod = "POST"
    /\ voiceEvent.openaiKey \/ voiceEvent.deepgramKey
    /\ AcceptsContentType(voiceEvent.contentType)
    /\ voiceEvent.hasBody
    /\ IF voiceEvent.openaiKey
          THEN /\ voiceCalls' = <<Call("openai", "pending")>>
               /\ voicePc' = "openai"
          ELSE /\ voiceCalls' = <<Call("deepgram", "pending")>>
               /\ voicePc' = "deepgram"
    /\ UNCHANGED <<voiceEvent, voiceTranscript, voiceError, voiceLog, voiceResponse,
                 searchVars, relVars, saveVars, createVars, navVars>>

\* transcribeWithOpenAI resolves: return transcript.trim()
VoiceOpenAIReturns ==
    /\ voicePc = "openai"
    /\ \E raw \in RawTranscripts :
          voiceTranscript' = trim(raw)
    /\ voiceCalls' = Settle(voiceCalls, "ok")
    /\ voicePc' = "analytics"
    /\ UNCHANGED <<voiceEvent, voiceError, voiceLog, voiceResponse,
                 searchVars, relVars, saveVars, createVars, navVars>>

\* transcribeWithOpenAI rejects: try Deepgram when its key is set, else rethrow
VoiceOpenAIFails ==
    /\ voicePc = "openai"
    /\ IF voiceEvent.deepgramKey
          THEN /\ voiceCalls' = Append(Settle(voiceCalls, "failed"),
                                       Call("deepgram", "pending"))
               /\ voicePc' = "fallback"
               /\ UNCHANGED voiceError
          ELSE /\ voiceCalls' = Settle(voiceCalls, "failed")
               /\ voicePc' = "catch"
               /\ voiceError' = <<"OpenAI API error">>
    /\ UNCHANGED <<voiceEvent, voiceTranscript, voiceLog, voiceResponse,
                 searchVars, relVars, saveVars, createVars, navVars>>

\* transcribeWithDeepgram resolves, as the only service or as the fallback
VoiceDeepgramReturns ==
    /\ voicePc \in {"deepgram", "fallback"}
    /\ \E raw \in RawTranscripts :
          voiceTranscript' = trim(raw)
    /\ voiceCalls' = Settle(voiceCalls, "ok")
    /\ voicePc' = "analytics"
    /\ UNCHANGED <<voiceEvent, voiceError, voiceLog, voiceResponse,
                 searchVars, relVars, saveVars, createVars, navVars>>

\* a Deepgram failure that is swallowed instead of rethrown
VoiceDeepgramFailsSilently ==
    /\ voicePc \in {"deepgram", "fallback"}
    /\ voiceCalls' = Settle(voiceCalls, "failed")
    /\ voicePc' = "analytics"
    /\ UNCHANGED <<voiceEvent, voiceTranscript, voiceError, voiceLog, voiceResponse,
                 searchVars, relVars, saveVars, createVars, navVars>>

\* transcribeWithDeepgram rejects: throw deepgramError, or after an OpenAI
\* failure throw new Error('All transcription services failed')
VoiceDeepgramFails ==
    /\ voicePc \in {"deepgram", "fallback"}
    /\ voiceCalls' = Settle(voiceCalls, "failed")
    /\ voiceError' = IF voicePc = "fallback"
                        THEN <<"All transcription services failed">>
                        ELSE <<"Deepgram API error">>
    /\ voicePc' = "catch"
    /\ UNCHANGED <<voiceEvent, voiceTranscript, voiceLog, voiceResponse,
                 searchVars, relVars, saveVars, createVars, navVars>>

InsertOutcomes == {"stored", "error", "throws"}

\* process.env.OPENAI_API_KEY ? 'openai' : 'deepgram'
serviceUsed(e) == IF e.openaiKey THEN "openai" ELSE "deepgram"

\* the voice_analytics insert of the success path, then the 200 response
VoiceSucceed ==
    /\ voicePc = "analytics"
    /\ \E outcome \in InsertOutcomes :
          voiceLog' = IF outcome = "stored"
                         THEN Append(voiceLog,
                                     [audio_size_bytes |-> Len(audioBuffer(voiceEvent)),
                                      transcript_length |-> Len(trim(voiceTranscript)),
                                      service_used |-> serviceUsed(voiceEvent),
                                      success |-> TRUE])
                         ELSE voiceLog
    /\ VoiceRespond([statusCode |-> 200,
                     success |-> TRUE,
                     transcript |-> trim(voiceTranscript),
                     metadata |-> [audioSizeBytes |-> Len(audioBuffer(voiceEvent)),
                                   transcriptLength |-> Len(trim(voiceTranscript)),
                                   serviceUsed |-> serviceUsed(voiceEvent)]])
    /\ UNCHANGED <<voiceEvent, voiceCalls, voiceTranscript, voiceError,
                 searchVars, relVars, saveVars, createVars, navVars>>

\* the catch block: the voice_analytics error row, then the 500 response
VoiceCatch ==
    /\ voicePc = "catch"
    /\ \E outcome \in InsertOutcomes :
          voiceLog' = IF outcome = "stored"
                         THEN Append(voiceLog,
                                     [success |-> FALSE, error_message |-> voiceError])
                         ELSE voiceLog
    /\ VoiceRespond([statusCode |-> 500,
                     success |-> FALSE,
                     error |-> <<"Transcription failed: ">> \o voiceError,
                     transcript |-> <<>>])
    /\ UNCHANGED <<voiceEvent, voiceCalls, voiceTranscript, voiceError,
                 searchVars, relVars, saveVars, createVars, navVars>>

NextVoice ==
    \/ VoicePreflight
    \/ VoiceMethodNotAllowed
    \/ VoiceNoService
    \/ VoiceBadContentType
    \/ VoiceNoAudio
    \/ VoiceBegin
    \/ VoiceOpenAIReturns
    \/ VoiceOpenAIFails
    \/ VoiceDeepgramReturns
    \/ VoiceDeepgramFails
    \/ VoiceSucceed
    \/ VoiceCatch

SpecVoice == InitVoice /\ [][NextVoice]_vars

VoiceDone == voicePc = "done" /\ voiceEvent.httpMethod = "POST"

Attempted(service) == \E k \in DOMAIN voiceCalls : voiceCalls[k].service = service

SomeCallOk == \E k \in DOMAIN voiceCalls : voiceCalls[k].outcome = "ok"

AllCallsFailed ==
    /\ voiceCalls # <<>>
    /\ \A k \in DOMAIN voiceCalls : voiceCalls[k].outcome = "failed"

VoiceRequestValid ==
    /\ voiceEvent.httpMethod = "POST"
    /\ AcceptsContentType(voiceEvent.contentType)
    /\ voiceEvent.hasBody

\* C15: a transcription service is attempted only when its API key is
\* configured; OpenAI is attempted first whenever its key is configured, and
\* Deepgram only when OpenAI is not configured or the OpenAI attempt has
\* failed. A POST is answered 200 exactly when one attempted service returned
\* a transcript; when every attempted service failed, or no key is configured,
\* the answer is 500 with an empty transcript.
C15_ServiceOrderAndOutcome ==
    /\ Attempted("openai") => voiceEvent.openaiKey
    /\ Attempted("deepgram") => voiceEvent.deepgramKey
    /\ (voiceEvent.openaiKey /\ VoiceRequestValid /\ voicePc # "start")
          => (voiceCalls # <<>> /\ voiceCalls[1].service = "openai")
    /\ \A k \in DOMAIN voiceCalls :
          voiceCalls[k].service = "deepgram"
             => \/ ~voiceEvent.openaiKey
                \/ k > 1 /\ voiceCalls[k - 1] = Call("openai", "failed")
    /\ VoiceDone => (voiceResponse.statusCode = 200 <=> SomeCallOk)
    /\ (VoiceDone /\ (AllCallsFailed \/ (~voiceEvent.openaiKey /\ ~voiceEvent.deepgramKey)))
          => (voiceResponse.statusCode = 500 /\ voiceResponse.transcript = <<>>)

C15_Witness ==
    /\ VoiceDone
    /\ voiceResponse.statusCode = 200
    /\ Len(voiceCalls) = 2
    /\ voiceCalls[1] = Call("openai", "failed")
    /\ voiceCalls[2] = Call("deepgram", "ok")

\* ---------------------------------------------------------------------------
\* Save-research handler
\* ---------------------------------------------------------------------------

Undefined == "undefined"

\* body.key of a parsed JSON body, undefined when the key is absent
Field(b, key) == IF key \in DOMAIN b THEN b[key] ELSE Undefined

\* !value for the string-valued fields of a body
Not(value) == value \in {Undefined, ""}

OptionalField(key, values) ==
    {EmptyBody} \cup {(key :> v) : v \in values}

SaveBodies ==
    {a @@ b @@ c @@ d :
        a \in OptionalField("entityType", {"", "person", "company"}),
        b \in OptionalField("entityName", {"Acme"}),
        c \in OptionalField("data", {"findings"}),
        d \in OptionalField("id", {"r1"})}

SaveEvents ==
    {[httpMethod |-> m, bodyParses |-> TRUE, body |-> EmptyBody] :
        m \in {"OPTIONS", "GET"}}
      \cup {[httpMethod |-> "POST", bodyParses |-> FALSE, body |-> EmptyBody]}
      \cup {[httpMethod |-> "POST", bodyParses |-> TRUE, body |-> b] : b \in SaveBodies}

InitSave ==
    /\ SearchIdle /\ RelIdle /\ VoiceIdle /\ CreateIdle /\ NavIdle
    /\ saveEvent \in SaveEvents
    /\ savePc = "start"
    /\ saveOps = <<>>
    /\ saveResponse = Null

SaveRespond(r) ==
    /\ saveResponse' = r
    /\ savePc' = "done"

StoreOp(table, op, outcome) == [table |-> table, op |-> op, outcome |-> outcome]

SavePreflight ==
    /\ savePc = "start"
    /\ saveEvent.httpMethod = "OPTIONS"
    /\ SaveRespond([statusCode |-> 200])
    /\ UNCHANGED <<saveEvent, saveOps,
                 searchVars, relVars, voiceVars, createVars, navVars>>

SaveMethodNotAllowed ==
    /\ savePc = "start"
    /\ saveEvent.httpMethod \notin {"OPTIONS", "POST"}
    /\ SaveRespond([statusCode |-> 405])
    /\ UNCHANGED <<saveEvent, saveOps,
                 searchVars, relVars, voiceVars, createVars, navVars>>

\* JSON.parse throws
SaveParseFailure ==
    /\ savePc = "start"
    /\ saveEvent.httpMethod = "POST"
    /\ ~saveEvent.bodyParses
    /\ savePc' = "catch"
    /\ UNCHANGED <<saveEvent, saveOps, saveResponse,
                 searchVars, relVars, voiceVars, createVars, navVars>>

SaveMissingField ==
    \/ Not(Field(saveEvent.body, "entityType"))
    \/ Not(Field(saveEvent.body, "entityName"))
    \/ Not(Field(saveEvent.body, "data"))

SaveRejectMissing ==
    /\ savePc = "start"
    /\ saveEvent.httpMethod = "POST"
    /\ saveEvent.bodyParses
    /\ SaveMissingField
    /\ SaveRespond([statusCode |-> 400, saved |-> FALSE])
    /\ UNCHANGED <<saveEvent, saveOps,
                 searchVars, relVars, voiceVars, createVars, navVars>>

\* id || `research-${Date.now()}-...`
researchRecord ==
    [id |-> IF Not(Field(saveEvent.body, "id"))
               THEN "research-generated"
               ELSE saveEvent.body.id,
     entity_type |-> Field(saveEvent.body, "entityType"),
     entity_name |-> Field(saveEvent.body, "entityName"),
     research_data |-> Field(saveEvent.body, "data")]

\* the select on saved_research: only a thrown error reaches the catch that
\* creates the table
SaveTableCheck ==
    /\ savePc = "start"
    /\ saveEvent.httpMethod = "POST"
    /\ saveEvent.bodyParses
    /\ ~SaveMissingField
    /\ \E outcome \in {"ok", "error", "throws"} :
          /\ saveOps' = Append(saveOps, StoreOp("saved_research", "select", outcome))
          /\ savePc' = IF outcome = "throws" THEN "rpc" ELSE "upsert"
    /\ UNCHANGED <<saveEvent, saveResponse,
                 searchVars, relVars, voiceVars, createVars, navVars>>

\* supabase.rpc('execute_sql'): rpcError is only warned about, a throw is not caught here
SaveCreateTable ==
    /\ savePc = "rpc"
    /\ \E outcome \in {"ok", "error", "throws"} :
          /\ saveOps' = Append(saveOps, StoreOp("execute_sql", "rpc", outcome))
          /\ savePc' = IF outcome = "throws" THEN "catch" ELSE "upsert"
    /\ UNCHANGED <<saveEvent, saveResponse,
                 searchVars, relVars, voiceVars, createVars, navVars>>

SaveUpsertOk ==
    /\ savePc = "upsert"
    /\ saveOps' = Append(saveOps, StoreOp("saved_research", "upsert", "ok"))
    /\ savePc' = "analytics"
    /\ UNCHANGED <<saveEvent, saveResponse,
                 searchVars, relVars, voiceVars, createVars, navVars>>

\* saveError.code === '42P01'
SaveUpsertTableMissing ==
    /\ savePc = "upsert"
    /\ saveOps' = Append(saveOps, StoreOp("saved_research", "upsert", "42P01"))
    /\ savePc' = "fallback"
    /\ UNCHANGED <<saveEvent, saveResponse,
                 searchVars, relVars, voiceVars, createVars, navVars>>

\* an upsert error of another code that is sent to the fallback store as well
SaveUpsertErrorFallsBack ==
    /\ savePc = "upsert"
    /\ saveOps' = Append(saveOps, StoreOp("saved_research", "upsert", "23505"))
    /\ savePc' = "fallback"
    /\ UNCHANGED <<saveEvent, saveResponse,
                 searchVars, relVars, voiceVars, createVars, navVars>>

\* any other saveError
SaveUpsertError ==
    /\ savePc = "upsert"
    /\ saveOps' = Append(saveOps, StoreOp("saved_research", "upsert", "23505"))
    /\ SaveRespond([statusCode |-> 500, saved |-> FALSE])
    /\ UNCHANGED <<saveEvent,
                 searchVars, relVars, voiceVars, createVars, navVars>>

SaveUpsertThrows ==
    /\ savePc = "upsert"
    /\ saveOps' = Append(saveOps, StoreOp("saved_research", "upsert", "throws"))
    /\ savePc' = "catch"
    /\ UNCHANGED <<saveEvent, saveResponse,
                 searchVars, relVars, voiceVars, createVars, navVars>>

SaveFallbackOk ==
    /\ savePc = "fallback"
    /\ saveOps' = Append(saveOps, StoreOp("generic_data_store", "insert", "ok"))
    /\ SaveRespond([statusCode |-> 200, success |-> TRUE, saved |-> TRUE,
                    research |-> [id |-> researchRecord.id,
                                  type |-> "saved_research",
                                  data |-> researchRecord],
                    fallbackUsed |-> TRUE])
    /\ UNCHANGED <<saveEvent,
                 searchVars, relVars, voiceVars, createVars, navVars>>

SaveFallbackError ==
    /\ savePc = "fallback"
    /\ saveOps' = Append(saveOps, StoreOp("generic_data_store", "insert", "error"))
    /\ SaveRespond([statusCode |-> 500, saved |-> FALSE, fallbackAttempted |-> TRUE])
    /\ UNCHANGED <<saveEvent,
                 searchVars, relVars, voiceVars, createVars, navVars>>

SaveFallbackThrows ==
    /\ savePc = "fallback"
    /\ saveOps' = Append(saveOps, StoreOp("generic_data_store", "insert", "throws"))
    /\ savePc' = "catch"
    /\ UNCHANGED <<saveEvent, saveResponse,
                 searchVars, relVars, voiceVars, createVars, navVars>>

\* the user_analytics insert in its own try/catch, then the 200 response
SaveSucceed ==
    /\ savePc = "analytics"
    /\ \E outcome \in InsertOutcomes :
          saveOps' = Append(saveOps, StoreOp("user_analytics", "insert", outcome))
    /\ SaveRespond([statusCode |-> 200, success |-> TRUE, saved |-> TRUE,
                    research |-> researchRecord])
    /\ UNCHANGED <<saveEvent,
                 searchVars, relVars, voiceVars, createVars, navVars>>

\* the outer catch: the error_logs insert in its own try/catch, then 500
SaveCatch ==
    /\ savePc = "catch"
    /\ \E outcome \in InsertOutcomes :
          saveOps' = Append(saveOps, StoreOp("error_logs", "insert", outcome))
    /\ SaveRespond([statusCode |-> 500, success |-> FALSE, saved |-> FALSE])
    /\ UNCHANGED <<saveEvent,
                 searchVars, relVars, voiceVars, createVars, navVars>>

NextSave ==
    \/ SavePreflight
    \/ SaveMethodNotAllowed
    \/ SaveParseFailure
    \/ SaveRejectMissing
    \/ SaveTableCheck
    \/ SaveCreateTable
    \/ SaveUpsertOk
    \/ SaveUpsertTableMissing
    \/ SaveUpsertError
    \/ SaveUpsertThrows
    \/ SaveFallbackOk
    \/ SaveFallbackError
    \/ SaveFallbackThrows
    \/ SaveSucceed
    \/ SaveCatch

SpecSave == InitSave /\ [][NextSave]_vars

\* the outcomes of the operations issued on one table
OutcomesOn(table, op) ==
    {saveOps[k].outcome : k \in {j \in DOMAIN saveOps :
                                    saveOps[j].table = table /\ saveOps[j].op = op}}

SaveResponded == savePc = "done" /\ "saved" \in DOMAIN saveResponse

\* C16: the insert into generic_data_store is issued only directly after the
\* upsert into saved_research failed with code 42P01; a response carries
\* saved: true only if the upsert or the fallback insert succeeded; any other
\* upsert error and a failed fallback insert end in 500 with saved: false.
C16_FallbackOnlyOnMissingTable ==
    /\ \A k \in DOMAIN saveOps :
          saveOps[k].table = "generic_data_store"
             => k > 1 /\ saveOps[k - 1] = StoreOp("saved_research", "upsert", "42P01")
    /\ savePc = "fallback"
          => saveOps[Len(saveOps)] = StoreOp("saved_research", "upsert", "42P01")
    /\ (SaveResponded /\ saveResponse.saved)
          => \/ "ok" \in OutcomesOn("saved_research", "upsert")
             \/ "ok" \in OutcomesOn("generic_data_store", "insert")
    /\ (savePc = "done"
          /\ \/ OutcomesOn("saved_research", "upsert") \ {"ok", "42P01"} # {}
             \/ OutcomesOn("generic_data_store", "insert") \ {"ok"} # {})
          => (saveResponse.statusCode = 500 /\ saveResponse.saved = FALSE)

C16_Witness ==
    /\ savePc = "done"
    /\ saveResponse.statusCode = 500
    /\ "error" \in OutcomesOn("generic_data_store", "insert")

\* ---------------------------------------------------------------------------
\* Create-entity handler
\* ---------------------------------------------------------------------------

PlainInput == "Ann runs Acme"
InputWithUrl == "Ann runs Acme, see https://acme.example"

\* input.match(urlRegex) || []
urls(input) == IF input = InputWithUrl THEN <<"https://acme.example">> ELSE <<>>

CreateBodies ==
    {a @@ b @@ c :
        a \in OptionalField("input", {"", PlainInput, InputWithUrl}),
        b \in OptionalField("entityType", {"", "person", "company", "project", "deal"}),
        c \in {EmptyBody, [includeWebScraping |-> "true"]}}

CreateEvents ==
    {[httpMethod |-> m, bodyParses |-> TRUE, body |-> EmptyBody] :
        m \in {"OPTIONS", "GET"}}
      \cup {[httpMethod |-> "POST", bodyParses |-> FALSE, body |-> EmptyBody]}
      \cup {[httpMethod |-> "POST", bodyParses |-> TRUE, body |-> b] : b \in CreateBodies}

\* the switch over entityType: table and requiredFields of each entity type
EntityTypes == {"person", "company", "project"}

extractionRules(entityType) ==
    CASE entityType = "person" -> [table |-> "people", requiredFields |-> <<"name">>]
      [] entityType = "company" -> [table |-> "companies", requiredFields |-> <<"name">>]
      [] entityType = "project" -> [table |-> "projects", requiredFields |-> <<"title">>]

\* what JSON.parse(aiResponse) can yield: an object with or without the fields
ExtractedObjects ==
    {a @@ b :
        a \in OptionalField("name", {"", "Ann"}),
        b \in OptionalField("title", {"Tower"})}

\* requiredFields.filter(field => !extractedData[field])
missingFields(rules, extractedData) ==
    SelectSeq(rules.requiredFields, LAMBDA field : Not(Field(extractedData, field)))

InitCreate ==
    /\ SearchIdle /\ RelIdle /\ VoiceIdle /\ SaveIdle /\ NavIdle
    /\ createEvent \in CreateEvents
    /\ createPc = "start"
    /\ createExtracted = EmptyBody
    /\ createOps = <<>>
    /\ createResponse = Null

CreateRespond(r) ==
    /\ createResponse' = r
    /\ createPc' = "done"

ExternalCall(target, op, outcome) == [target |-> target, op |-> op, outcome |-> outcome]

CreatePreflight ==
    /\ createPc = "start"
    /\ createEvent.httpMethod = "OPTIONS"
    /\ CreateRespond([statusCode |-> 200])
    /\ UNCHANGED <<createEvent, createExtracted, createOps,
                 searchVars, relVars, voiceVars, saveVars, navVars>>

CreateMethodNotAllowed ==
    /\ createPc = "start"
    /\ createEvent.httpMethod \notin {"OPTIONS", "POST"}
    /\ CreateRespond([statusCode |-> 405])
    /\ UNCHANGED <<createEvent, createExtracted, createOps,
                 searchVars, relVars, voiceVars, saveVars, navVars>>

CreateFailure == [statusCode |-> 500, success |-> FALSE, entity |-> Null]

\* JSON.parse(event.body) throws: the catch block answers 500
CreateParseFailure ==
    /\ createPc = "start"
    /\ createEvent.httpMethod = "POST"
    /\ ~createEvent.bodyParses
    /\ CreateRespond(CreateFailure)
    /\ UNCHANGED <<createEvent, createExtracted, createOps,
                 searchVars, relVars, voiceVars, saveVars, navVars>>

CreateParsed ==
    /\ createPc = "start"
    /\ createEvent.httpMethod = "POST"
    /\ createEvent.bodyParses

CreateInputMissing ==
    \/ Not(Field(createEvent.body, "input"))
    \/ Not(Field(createEvent.body, "entityType"))

CreateRejectMissing ==
    /\ CreateParsed
    /\ CreateInputMissing
    /\ CreateRespond([statusCode |-> 400, entity |-> Null])
    /\ UNCHANGED <<createEvent, createExtracted, createOps,
                 searchVars, relVars, voiceVars, saveVars, navVars>>

\* the default branch of the switch
CreateRejectType ==
    /\ CreateParsed
    /\ ~CreateInputMissing
    /\ createEvent.body.entityType \notin EntityTypes
    /\ CreateRespond([statusCode |-> 400, entity |-> Null])
    /\ UNCHANGED <<createEvent, createExtracted, createOps,
                 searchVars, relVars, voiceVars, saveVars, navVars>>

\* includeWebScraping && urls.length > 0
WantsScraping ==
    /\ ~Not(Field(createEvent.body, "includeWebScraping"))
    /\ Len(urls(createEvent.body.input)) > 0

\* the switch chose a rule set; scrape first when asked to, else go to the model
CreatePrepare ==
    /\ CreateParsed
    /\ ~CreateInputMissing
    /\ createEvent.body.entityType \in EntityTypes
    /\ createPc' = IF WantsScraping THEN "scrape" ELSE "extract"
    /\ UNCHANGED <<createEvent, createExtracted, createOps, createResponse,
                 searchVars, relVars, voiceVars, saveVars, navVars>>

\* the scraping fetch in its own try/catch: every outcome continues
CreateScrape ==
    /\ createPc = "scrape"
    /\ \E outcome \in {"ok", "not ok", "throws"} :
          createOps' = Append(createOps, ExternalCall("api-firecrawl", "fetch", outcome))
    /\ createPc' = "extract"
    /\ UNCHANGED <<createEvent, createExtracted, createResponse,
                 searchVars, relVars, voiceVars, saveVars, navVars>>

\* the fetch rejects, the response is not ok, or the text holds no JSON object
\* (or JSON that is not an object with properties): all throw into the catch
CreateExtractionFails ==
    /\ createPc = "extract"
    /\ \E outcome \in {"throws", "not ok", "unparseable", "null"} :
          createOps' = Append(createOps, ExternalCall("anthropic", "fetch", outcome))
    /\ CreateRespond(CreateFailure)
    /\ UNCHANGED <<createEvent, createExtracted,
                 searchVars, relVars, voiceVars, saveVars, navVars>>

\* extractedData = JSON.parse(aiResponse)
CreateExtract ==
    /\ createPc = "extract"
    /\ createOps' = Append(createOps, ExternalCall("anthropic", "fetch", "ok"))
    /\ createExtracted' \in ExtractedObjects
    /\ createPc' = "validate"
    /\ UNCHANGED <<createEvent, createResponse,
                 searchVars, relVars, voiceVars, saveVars, navVars>>

\* a validation step that lets every extraction through to the insert
CreateValidateSkipped ==
    /\ createPc = "validate"
    /\ createPc' = "insert"
    /\ UNCHANGED <<createEvent, createExtracted, createOps, createResponse,
                 searchVars, relVars, voiceVars, saveVars, navVars>>

\* if (missingFields.length > 0) return 400, else go on to the insert
CreateValidate ==
    /\ createPc = "validate"
    /\ IF Len(missingFields(extractionRules(createEvent.body.entityType),
                            createExtracted)) > 0
          THEN /\ CreateRespond([statusCode |-> 400, entity |-> createExtracted])
          ELSE /\ createPc' = "insert"
               /\ UNCHANGED createResponse
    /\ UNCHANGED <<createEvent, createExtracted, createOps,
                 searchVars, relVars, voiceVars, saveVars, navVars>>

\* extractedData with the metadata added before the insert
EntityRow ==
    createExtracted @@
      [type |-> createEvent.body.entityType,
       source |-> "ai_extraction",
       raw_input |-> createEvent.body.input,
       source_urls |-> urls(createEvent.body.input)]

\* supabase.from(extractionRules.table).insert([extractedData])
CreateInsert ==
    /\ createPc = "insert"
    /\ \E outcome \in InsertOutcomes :
          /\ createOps' = Append(createOps,
                                 ExternalCall(extractionRules(createEvent.body.entityType).table,
                                              "insert", outcome))
          /\ CreateRespond(
                CASE outcome = "stored" -> [statusCode |-> 200, success |-> TRUE,
                                            entity |-> EntityRow]
                  [] outcome = "error" -> [statusCode |-> 200, success |-> TRUE,
                                           entity |-> EntityRow,
                                           warning |-> "Entity extracted but not saved to database"]
                  [] outcome = "throws" -> CreateFailure)
    /\ UNCHANGED <<createEvent, createExtracted,
                 searchVars, relVars, voiceVars, saveVars, navVars>>

NextCreate ==
    \/ CreatePreflight
    \/ CreateMethodNotAllowed
    \/ CreateParseFailure
    \/ CreateRejectMissing
    \/ CreateRejectType
    \/ CreatePrepare
    \/ CreateScrape
    \/ CreateExtractionFails
    \/ CreateExtract
    \/ CreateValidate
    \/ CreateInsert

SpecCreate == InitCreate /\ [][NextCreate]_vars

EntityTables == {"people", "companies", "projects"}

InsertAttempted == \E k \in DOMAIN createOps : createOps[k].target \in EntityTables

CreateDone == createPc = "done" /\ createEvent.httpMethod = "POST"

ExtractionFailed ==
    \E k \in DOMAIN createOps :
        createOps[k].target = "anthropic" /\ createOps[k].outcome # "ok"

Extracted ==
    \E k \in DOMAIN createOps :
        createOps[k].target = "anthropic" /\ createOps[k].outcome = "ok"

\* input and entityType present, entityType one of the three, and the
\* extracted data holding every required field
CreateComplete ==
    /\ createEvent.httpMethod = "POST"
    /\ createEvent.bodyParses
    /\ ~CreateInputMissing
    /\ createEvent.body.entityType \in EntityTypes
    /\ Extracted
    /\ Len(missingFields(extractionRules(createEvent.body.entityType), createExtracted)) = 0


\* C17 as stated: the insert is attempted only for a complete request, and
\* every other request is answered 400 without a write to the store.
C17_OtherwiseAlways400 ==
    /\ InsertAttempted => CreateComplete
    /\ (CreateDone /\ ~CreateComplete)
          => (createResponse.statusCode = 400 /\ ~InsertAttempted)

\* C17: the insert into the entity table is attempted only when input and
\* entityType are present, entityType is person, company or project, and the
\* extracted data holds every required field. Otherwise nothing is written:
\* the answer is 400 when input or entityType is missing or invalid or a
\* required field was not extracted, and 500 when the body does not parse or
\* the extraction itself failed.
C17_InsertOnlyWhenComplete ==
    /\ InsertAttempted => CreateComplete
    /\ (CreateDone /\ ~CreateComplete)
          => /\ ~InsertAttempted
             /\ createResponse.statusCode =
                   IF ~createEvent.bodyParses \/ ExtractionFailed THEN 500 ELSE 400

C17_Witness ==
    /\ CreateDone
    /\ ~CreateComplete
    /\ ExtractionFailed
    /\ createResponse.statusCode = 500
    /\ ~InsertAttempted

\* ---------------------------------------------------------------------------
\* NavigationProvider
\* ---------------------------------------------------------------------------

MaxNavSteps == 3

ViewTypes == {"dashboard", "person", "company"}

\* view.charAt(0).toUpperCase() + view.slice(1)
Capitalized(view) ==
    CASE view = "dashboard" -> "Dashboard"
      [] view = "person" -> "Person"
      [] view = "company" -> "Company"

\* the argument of useState; an optional property that is not set reads undefined
InitialNavigationState ==
    [currentView |-> "dashboard",
     entityId |-> Undefined,
     entityType |-> Undefined,
     breadcrumbs |-> <<[label |-> <<"Dashboard">>, view |-> "dashboard",
                        entityId |-> Undefined]>>]

\* label || `${Capitalized} ${entityId ? `#${entityId}` : ''}`
newBreadcrumb(view, entityId, label) ==
    [label |-> IF Not(label)
                  THEN <<Capitalized(view), " ">>
                         \o (IF Not(entityId) THEN <<>> ELSE <<"#", entityId>>)
                  ELSE <<label>>,
     view |-> view,
     entityId |-> entityId]

\* the updater that navigateTo passes to setNavigationState
navigateTo(prev, view, entityId, entityType, label) ==
    [currentView |-> view,
     entityId |-> entityId,
     entityType |-> entityType,
     breadcrumbs |-> Append(prev.breadcrumbs, newBreadcrumb(view, entityId, label))]

\* prev.breadcrumbs.slice(0, -1)
sliceLast(breadcrumbs) == SubSeq(breadcrumbs, 1, Len(breadcrumbs) - 1)

\* an updater that trims the trail but leaves the view where it was
navigateBackKeepsView(prev) ==
    [currentView |-> prev.currentView,
     entityId |-> prev.entityId,
     entityType |-> Undefined,
     breadcrumbs |-> sliceLast(prev.breadcrumbs)]

\* the updater that navigateBack passes to setNavigationState; it is applied
\* only where lastBreadcrumb exists
navigateBack(prev) ==
    LET newBreadcrumbs == sliceLast(prev.breadcrumbs)
        lastBreadcrumb == newBreadcrumbs[Len(newBreadcrumbs)]
    IN  [currentView |-> lastBreadcrumb.view,
         entityId |-> lastBreadcrumb.entityId,
         entityType |-> Undefined,
         breadcrumbs |-> newBreadcrumbs]

\* a reset that pushes a Dashboard crumb instead of replacing the trail
navigateToDashboardPushing ==
    navigateTo(navigationState, "dashboard", Undefined, Undefined, "Dashboard")

\* the state navigateToDashboard passes to setNavigationState
navigateToDashboard ==
    [currentView |-> "dashboard",
     entityId |-> Undefined,
     entityType |-> Undefined,
     breadcrumbs |-> <<[label |-> <<"Dashboard">>, view |-> "dashboard",
                        entityId |-> Undefined]>>]

InitNav ==
    /\ SearchIdle /\ RelIdle /\ VoiceIdle /\ SaveIdle /\ CreateIdle
    /\ navigationState = InitialNavigationState
    /\ navTrace = <<>>
    /\ navCrashed = FALSE

\* the provider is mounted and may still be called
NavLive == ~navCrashed /\ Len(navTrace) < MaxNavSteps

Commit(op, next) ==
    /\ navigationState' = next
    /\ navTrace' = Append(navTrace, [op |-> op, before |-> navigationState, after |-> next])

CallNavigateTo ==
    /\ NavLive
    /\ \E view \in ViewTypes, entityId \in {Undefined, "7"},
          entityType \in {Undefined, "person"}, label \in {Undefined, "Ann"} :
          Commit("navigateTo", navigateTo(navigationState, view, entityId, entityType, label))
    /\ UNCHANGED <<navCrashed,
                 searchVars, relVars, voiceVars, saveVars, createVars>>

CallNavigateBack ==
    /\ NavLive
    /\ Len(navigationState.breadcrumbs) > 1
    /\ Commit("navigateBack", navigateBack(navigationState))
    /\ UNCHANGED <<navCrashed,
                 searchVars, relVars, voiceVars, saveVars, createVars>>

\* a navigateBack on the last crumb that commits an empty trail
CallNavigateBackEmpties ==
    /\ NavLive
    /\ Len(navigationState.breadcrumbs) = 1
    /\ Commit("navigateBack", [currentView |-> Undefined, entityId |-> Undefined,
                               entityType |-> Undefined, breadcrumbs |-> <<>>])
    /\ UNCHANGED <<navCrashed,
                 searchVars, relVars, voiceVars, saveVars, createVars>>

\* with one crumb left lastBreadcrumb is undefined: the updater throws a
\* TypeError, no state is committed and the provider stops rendering
CallNavigateBackThrows ==
    /\ NavLive
    /\ Len(navigationState.breadcrumbs) = 1
    /\ navCrashed' = TRUE
    /\ navTrace' = Append(navTrace, [op |-> "navigateBack", before |-> navigationState,
                                     after |-> navigationState])
    /\ UNCHANGED <<navigationState,
                 searchVars, relVars, voiceVars, saveVars, createVars>>

CallNavigateToDashboard ==
    /\ NavLive
    /\ Commit("navigateToDashboard", navigateToDashboard)
    /\ UNCHANGED <<navCrashed,
                 searchVars, relVars, voiceVars, saveVars, createVars>>

NextNav ==
    \/ CallNavigateTo
    \/ CallNavigateBack
    \/ CallNavigateBackThrows
    \/ CallNavigateToDashboard

SpecNav == InitNav /\ [][NextNav]_vars

\* C18: a navigateTo call followed immediately by navigateBack restores
\* currentView, entityId and the breadcrumb list to the values they had before
\* the navigateTo.
C18_BackUndoesNavigateTo ==
    \A k \in 1..(Len(navTrace) - 1) :
        (navTrace[k].op = "navigateTo" /\ navTrace[k + 1].op = "navigateBack")
           => /\ navTrace[k + 1].after.currentView = navTrace[k].before.currentView
              /\ navTrace[k + 1].after.entityId = navTrace[k].before.entityId
              /\ navTrace[k + 1].after.breadcrumbs = navTrace[k].before.breadcrumbs
              /\ k + 1 = Len(navTrace) => navigationState = navTrace[k + 1].after

C18_Witness ==
    /\ Len(navTrace) = 3
    /\ navTrace[1].op = "navigateTo"
    /\ navTrace[1].after.entityId = "7"
    /\ navTrace[2].op = "navigateTo"
    /\ navTrace[2].after.currentView # navTrace[1].after.currentView
    /\ navTrace[3].op = "navigateBack"
    /\ navigationState.entityId = "7"

\* C19: navigateToDashboard, called in any reachable state, leaves the initial
\* state: currentView dashboard, entityId and entityType unset, and the single
\* Dashboard crumb as the breadcrumb list.
C19_DashboardResets ==
    \A k \in DOMAIN navTrace :
        navTrace[k].op = "navigateToDashboard"
           => /\ navTrace[k].after = InitialNavigationState
              /\ k = Len(navTrace) => navigationState = InitialNavigationState

C19_Witness ==
    /\ Len(navTrace) = 3
    /\ navTrace[3].op = "navigateToDashboard"
    /\ Len(navTrace[3].before.breadcrumbs) = 3
    /\ navTrace[3].before.entityType = "person"
    /\ navigationState = InitialNavigationState

\* C20: in every reachable state, also after navigateBack was called with only
\* the Dashboard crumb left, the breadcrumb list is non-empty, its first entry
\* is the Dashboard crumb, and currentView and entityId are the view and
\* entityId of the last breadcrumb.
C20_TrailInvariant ==
    LET breadcrumbs == navigationState.breadcrumbs
    IN  /\ Len(breadcrumbs) >= 1
        /\ breadcrumbs[1] = InitialNavigationState.breadcrumbs[1]
        /\ navigationState.currentView = breadcrumbs[Len(breadcrumbs)].view
        /\ navigationState.entityId = breadcrumbs[Len(breadcrumbs)].entityId

C20_Witness ==
    /\ navCrashed
    /\ Len(navTrace) = 3
    /\ navTrace[1].op = "navigateTo"
    /\ navTrace[2].op = "navigateBack"
    /\ navTrace[3].op = "navigateBack"
    /\ Len(navigationState.breadcrumbs) = 1

\* the services whose call returned the transcript of this invocation
Producers == {voiceCalls[k].service : k \in {j \in DOMAIN voiceCalls :
                                                voiceCalls[j].outcome = "ok"}}

\* C21: in a successful voice-transcription response metadata.serviceUsed, and
\* service_used of the analytics row, name the service that produced the
\* returned transcript, also when OpenAI failed and Deepgram produced it.
C21_ServiceUsedNamesProducer ==
    (VoiceDone /\ voiceResponse.statusCode = 200)
       => /\ voiceResponse.metadata.serviceUsed \in Producers
          /\ \A k \in DOMAIN voiceLog :
                voiceLog[k].success => voiceLog[k].service_used \in Producers

\* some whitespace-separated word of the lower-cased field contains the term
SomeWordContains(term, field) ==
    LET words == split(toLowerCase(field))
    IN  \E w \in 1..Len(words) : includes(words[w], term)

\* C22: the word-level partial-match branch never adds to the score: a field
\* with a word that contains the term contains the term itself, so what each
\* field adds is 0, 60, 80 or 100 times its weight 1/(index+1).
C22_PartialMatchBranchDead ==
    RelReturned =>
        LET term == toLowerCase(relTerm)
            added == [i \in 1..Len(relFields) |-> FieldScore(term, relFields[i], i - 1)]
        IN  /\ relScore = SumSeq(added)
            /\ \A i \in 1..Len(relFields) :
                  /\ (~Falsy(relFields[i]) /\ SomeWordContains(term, relFields[i]))
                        => \E k \in 0..Len(relFields[i]) :
                              OccursAt(toLowerCase(relFields[i]), term, k)
                  /\ added[i] * i \in {0, ContainsPoints * ScoreUnit,
                                        PrefixPoints * ScoreUnit, ExactPoints * ScoreUnit}

\* a first field of two words whose second word is the term, the other two
\* fields null: the score is the 60 of the contains tier
C22_Witness ==
    /\ RelReturned
    /\ Len(split(toLowerCase(relFields[1]))) = 2
    /\ SomeWordContains(toLowerCase(relTerm), relFields[1])
    /\ ~startsWith(toLowerCase(relFields[1]), toLowerCase(relTerm))
    /\ relFields[2] = Null /\ relFields[3] = Null
    /\ relScore = ContainsPoints * ScoreUnit

\* the columns of a record's table that are passed to calculateRelevance
ScoredColumns(type) ==
    CASE type = "person" -> {"name", "title", "company"}
      [] type = "company" -> {"name", "description", "sectors"}
      [] type = "project" -> {"title", "description", "location"}

\* the columns the filter matches but the scoring never sees
UnscoredColumns(type) ==
    CASE type = "person" -> {"email"}
      [] type = "company" -> {"city"}
      [] type = "project" -> {"developer", "architect"}

\* the record was returned only because an unscored column holds the term
MatchedOnlyUnscored(r, q) ==
    /\ \E col \in UnscoredColumns(r.type) : ilike(r[col], q)
    /\ \A col \in ScoredColumns(r.type) : ~ilike(r[col], q)

\* C23: a record returned only because the query matched a column that is not
\* passed to scoring (email, city, developer, architect) has relevanceScore 0
\* and stands after every record with a positive score.
C23_UnscoredMatchesRankLast ==
    IsSearchResponse =>
        \A i \in 1..NumResults :
            MatchedOnlyUnscored(response.results[i], searchTerm) =>
                /\ response.results[i].relevanceScore = 0
                /\ \A j \in 1..NumResults :
                      response.results[j].relevanceScore > 0 => j < i

\* a person found through the email only, ranked behind a company and a
\* project that score, although people come first in the concatenation
C23_Witness ==
    /\ IsSearchResponse
    /\ \E i \in 1..NumResults : \E j \in 1..(i - 1) : \E k \in 1..(i - 1) :
          /\ response.results[i].type = "person"
          /\ MatchedOnlyUnscored(response.results[i], searchTerm)
          /\ response.results[i].relevanceScore = 0
          /\ response.results[j].type = "company"
          /\ response.results[j].relevanceScore > 0
          /\ response.results[k].type = "project"
          /\ response.results[k].relevanceScore > 0

====
